---- MODULE Spec2Model ----
(***************************************************************************)
(* Watai: Feature (scenario compiler, assertion thunks, sequential         *)
(* executor) as found in src/src/controller/Runner.js.                     *)
(*                                                                         *)
(* One Feature is built from a raw scenario (Feature.initialize ->         *)
(* loadScenario) and then evaluated with Feature.test().  Every action of  *)
(* the model is one task of the JavaScript event loop: the synchronous     *)
(* code of a call or of a promise callback, run to completion.  The        *)
(* Feature is evaluated once.  The driver is an external collaborator: it  *)
(* answers the reads it was asked for one at a time, in any order.         *)
(*                                                                         *)
(* Runner (same file) walks a list of Features against one driver session; *)
(* RunnerSpec explores it with each Feature reduced to what its test()     *)
(* shows the Runner: the steps it goes through and how its handle settles. *)
(*                                                                         *)
(* SuiteLoader (src/src/controller/SuiteLoader.js) reads a suite folder    *)
(* and feeds its Runner; LoaderSpec explores it over the listings of a     *)
(* folder, each file reduced to what its evaluation defines and needs.     *)
(***************************************************************************)
EXTENDS Integers, Sequences, FiniteSets, TLC

(***************************************************************************)
(* Bounds of the model.                                                    *)
(***************************************************************************)
\* longest raw scenario handed to the Feature constructor
MaxScenario == 3
\* most keys the state descriptions of one scenario hold together, hence most
\* reads the driver is asked for while the Feature is evaluated
MaxKeys == 2
\* most Features added to one Runner
MaxFeatures == 3
\* most files the listing of a suite folder holds
MaxFiles == 5

(***************************************************************************)
(* Raw scenario elements, described by what loadScenario inspects:         *)
(* `typeof step` and `step.length`.                                        *)
(***************************************************************************)
\* what a user-supplied function does when it is called
Behaviours == {"plain", "throws", "resolves", "rejects", "pending"}

\* a closure
Fn(b) ==
    [type |-> "function", lengthDefined |-> FALSE, length |-> 0,
     beh |-> b, members |-> <<>>, hooksVals |-> <<>>]

\* an Array of parameters
Arr(m) ==
    [type |-> "object", lengthDefined |-> TRUE, length |-> Len(m),
     beh |-> "none", members |-> m, hooksVals |-> <<>>]

\* a widget state description hash; h lists its keys in enumeration order
Hash(h) ==
    [type |-> "object", lengthDefined |-> FALSE, length |-> 0,
     beh |-> "none", members |-> <<>>, hooksVals |-> h]

\* a primitive value
Prim(v) ==
    [type |-> "string", lengthDefined |-> FALSE, length |-> 0,
     beh |-> "none", members |-> <<v>>, hooksVals |-> <<>>]

\* one key of a state description: a property path and the expected text
HV(path, expected) == [attribute |-> path, expected |-> expected]

\* the widgets the Feature is given (FeatureTest.js: { TestWidget: WidgetTest })
TestWidgets == {"TestWidget"}

\* the state descriptions of the scenarios explored
Hashes ==
    { <<>>,
      <<HV(<<"TestWidget", "id">>, "a")>>,
      <<HV(<<"TestWidget", "id">>, "a"), HV(<<"TestWidget", "missing">>, "b")>>,
      <<HV(<<"TestWidget", "id">>, "a"), HV(<<"Unknown", "id">>, "a")>> }

\* the raw scenario elements explored
Elements ==
    { Fn(b) : b \in Behaviours } \cup { Hash(h) : h \in Hashes }
        \cup { Arr(<<"Paris">>), Prim("London") }

RECURSIVE SeqsUpTo(_, _)
SeqsUpTo(S, n) ==
    IF n = 0 THEN { <<>> }
    ELSE LET shorter == SeqsUpTo(S, n - 1)
         IN  shorter \cup { Append(s, e) : s \in { t \in shorter : Len(t) = n - 1 }, e \in S }

\* the number of keys of the elements of scn, from the idx-th on
RECURSIVE keysFrom(_, _)
keysFrom(scn, idx) ==
    IF idx > Len(scn) THEN 0
    ELSE Len(scn[idx].hooksVals) + keysFrom(scn, idx + 1)

Scenarios == { scn \in SeqsUpTo(Elements, MaxScenario) : keysFrom(scn, 1) <= MaxKeys }

VARIABLES
    scenario,        \* the raw scenario given to `new Feature(description, scenario, widgets)`
    widgets,         \* Feature.widgets: the names the registry holds
    feature,         \* "none" | "constructed" | "threw": outcome of the constructor
    steps,           \* Feature.steps
    matchesLeft,     \* per step: the `matchesLeft` closure variable of its assertion thunk
    tests,           \* number of calls of test() so far
    deferred,        \* state of the handle the latest test() returned
    stepIndex,       \* `stepIndex` of the latest test()
    failureReasons,  \* `failureReasons` of the latest test(): [failures, errors]
    report,          \* the value the handle test() returned was settled with
    result,          \* the handle the current step returned: [state, reason]
    pendingReads,    \* driver reads issued by assertion thunks and not yet answered
    invoked,         \* history: every call of a step, in order
    issued,          \* history: every read an assertion thunk asked the driver for
    answers,         \* history: how each read ended
    outcomes         \* history: how each handle returned by a step settled

featureVars == <<scenario, widgets, feature, steps, matchesLeft, tests, deferred, stepIndex,
                 failureReasons, report, result, pendingReads, invoked, issued, answers,
                 outcomes>>

VARIABLES
    features,        \* Runner.features: the Features added with addFeature, in order
    failed,          \* Runner.failed
    currentFeature,  \* Runner.currentFeature
    navigation,      \* the handle of driver.get(baseURL): "none" before run()
    evaluation,      \* the Feature being evaluated: its index, its step, its handle
    finished,        \* history: the `success` of every call of finish
    quits,           \* number of calls of driver.quit()
    evaluated,       \* history: the indices of the Features whose test() was called
    results          \* history: how the handle of each evaluated Feature settled

runnerVars == <<features, failed, currentFeature, navigation, evaluation, finished, quits,
                evaluated, results>>

VARIABLES
    files,           \* the listing fs.readdir gives of the suite folder
    config,          \* can config.js be loaded?
    loader,          \* "none" | "constructed" | "threw": outcome of `new SuiteLoader(path)`
    runner,          \* SuiteLoader.runner: "none" until the Runner is created
    listing,         \* the fs.readdir request: "none" | "pending" | "loaded" | "threw"
    context,         \* SuiteLoader.context: its globals and its `__widgets__`
    bridge,          \* SuiteLoader.features, which the context knows as `__features__`
    loaded           \* history: every file evaluated, in order, with the `__widgets__` it saw

loaderVars == <<files, config, loader, runner, listing, context, bridge, loaded>>

vars == <<featureVars, runnerVars, loaderVars>>

\* the context before buildContext
NoContext == [globals |-> {}, widgetsList |-> {}]

\* no SuiteLoader has been made
LoaderIdle ==
    /\ files = <<>>
    /\ config = "loadable"
    /\ loader = "none"
    /\ runner = "none"
    /\ listing = "none"
    /\ context = NoContext
    /\ bridge = <<>>
    /\ loaded = <<>>

\* no Feature is being evaluated
NoEvaluation == [feature |-> 0, step |-> 0, state |-> "none"]

\* a Runner as `new Runner(config)` leaves it
RunnerIdle ==
    /\ features = <<>>
    /\ failed = FALSE
    /\ currentFeature = 0
    /\ navigation = "none"
    /\ evaluation = NoEvaluation
    /\ finished = <<>>
    /\ quits = 0
    /\ evaluated = <<>>
    /\ results = <<>>

(***************************************************************************)
(* Feature construction: initialize -> loadScenario.                       *)
(***************************************************************************)
\* a compiled step: the function `base` (made from scenario element `src`),
\* wrapped by one `apply.bind` per entry of `bound`, innermost first
Step(kind, src, beh, hooksVals, bound) ==
    [kind |-> kind, src |-> src, beh |-> beh, hooksVals |-> hooksVals, bound |-> bound]

\* what `result.pop()` yields on an empty array
Undefined == Step("undefined", 0, "none", <<>>, <<>>)

Returned(v) == [threw |-> FALSE, value |-> v]
Thrown == [threw |-> TRUE, value |-> Undefined]

\* Object.hasPropertyPath(widgets, attribute): the widget-name segment of the
\* path names a widget of the registry
hasPropertyPath(w, path) ==
    /\ Len(path) >= 1
    /\ path[1] \in w

\* buildFunctionalPromise that binds to whatever result.pop() gave
buildFunctionalPromiseUnchecked(func, params) ==
    Returned([func EXCEPT !.bound = Append(@, params)])

\* func.apply.bind(func, null, params); `undefined.apply` is a TypeError
buildFunctionalPromise(func, params) ==
    IF func.kind = "undefined" THEN Thrown
    ELSE Returned([func EXCEPT !.bound = Append(@, params)])

\* buildAssertionPromise that validates the first key alone
buildAssertionPromiseFirstKey(w, hooksVals, src) ==
    IF Len(hooksVals) >= 1 /\ ~ hasPropertyPath(w, hooksVals[1].attribute)
    THEN Thrown
    ELSE Returned(Step("assertion", src, "none", hooksVals, <<>>))

\* buildAssertionPromise with its test negated
buildAssertionPromiseNegated(w, hooksVals, src) ==
    IF \E k \in 1..Len(hooksVals) : hasPropertyPath(w, hooksVals[k].attribute)
    THEN Thrown
    ELSE Returned(Step("assertion", src, "none", hooksVals, <<>>))

\* the validation loop of buildAssertionPromise, then the closure it returns
buildAssertionPromise(w, hooksVals, src) ==
    IF \E k \in 1..Len(hooksVals) : ~ hasPropertyPath(w, hooksVals[k].attribute)
    THEN Thrown
    ELSE Returned(Step("assertion", src, "none", hooksVals, <<>>))

\* result.pop(): the last compiled step, `undefined` on an empty array
pop(res) == IF res = <<>> THEN Undefined ELSE res[Len(res)]

\* the array result.pop() leaves behind
popped(res) == IF res = <<>> THEN res ELSE SubSeq(res, 1, Len(res) - 1)

\* one turn of the loop of loadScenario: `result` after the push for scenario[idx]
compileStep(w, scn, idx, res) ==
    LET step == scn[idx]
        push(arr, built) ==
            IF built.threw THEN [threw |-> TRUE, value |-> <<>>]
            ELSE Returned(Append(arr, built.value))
    IN  IF step.type = "function"
        THEN push(res, Returned(Step("function", idx, step.beh, <<>>, <<>>)))
        ELSE IF step.type = "object" /\ step.lengthDefined /\ step.length >= 0
        THEN push(popped(res), buildFunctionalPromise(pop(res), step.members))
        ELSE IF step.type = "object"
        THEN push(res, buildAssertionPromise(w, step.hooksVals, idx))
        ELSE push(popped(res), buildFunctionalPromise(pop(res), <<step.members[1]>>))

RECURSIVE loadScenarioFrom(_, _, _, _)
loadScenarioFrom(w, scn, idx, res) ==
    IF idx > Len(scn) THEN Returned(res)
    ELSE LET next == compileStep(w, scn, idx, res)
         IN  IF next.threw THEN next
             ELSE loadScenarioFrom(w, scn, idx + 1, next.value)

loadScenario(w, scn) == loadScenarioFrom(w, scn, 1, <<>>)

\* `matchesLeft` as the validation loop leaves it: one per key
countMatches(s) == Len(s.hooksVals)

\* a failure or error description
Message(kind, src, attribute, actual, expected) ==
    [kind |-> kind, src |-> src, attribute |-> attribute,
     actual |-> actual, expected |-> expected]

NoMessage == Message("none", 0, <<>>, "", "")

\* a handle returned by a step: step is the index of the step that returned it
Handle(state, step, reason) == [state |-> state, step |-> step, reason |-> reason]

NoResult == Handle("none", 0, NoMessage)
NoReasons == [failures |-> <<>>, errors |-> <<>>]

\* the value a handle is settled with: nothing, or a report
NoValue == [given |-> FALSE, failures |-> <<>>, errors |-> <<>>]
Value(rep) == [given |-> TRUE, failures |-> rep.failures, errors |-> rep.errors]

Init ==
    /\ scenario \in Scenarios
    /\ widgets = TestWidgets
    /\ feature = "none"
    /\ steps = <<>>
    /\ matchesLeft = <<>>
    /\ tests = 0
    /\ deferred = "none"
    /\ stepIndex = 0 - 1
    /\ failureReasons = NoReasons
    /\ report = NoValue
    /\ result = NoResult
    /\ pendingReads = {}
    /\ invoked = <<>>
    /\ issued = {}
    /\ answers = {}
    /\ outcomes = {}
    /\ RunnerIdle
    /\ LoaderIdle

\* new Feature(description, scenario, widgets)
FeatureInit ==
    /\ feature = "none"
    /\ LET compiled == loadScenario(widgets, scenario)
       IN  IF compiled.threw
           THEN /\ feature' = "threw"
                /\ UNCHANGED <<steps, matchesLeft>>
           ELSE /\ feature' = "constructed"
                /\ steps' = compiled.value
                /\ matchesLeft' = [i \in DOMAIN compiled.value |-> countMatches(compiled.value[i])]
    /\ UNCHANGED <<scenario, widgets, tests, deferred, stepIndex, failureReasons,
                   report, result, pendingReads, invoked, issued, answers, outcomes>>
    /\ UNCHANGED <<runnerVars, loaderVars>>

(***************************************************************************)
(* Feature.test(): the sequential executor.                                *)
(***************************************************************************)
\* the arguments, were the outermost bind to win
argumentsOutermost(bound, args) ==
    IF bound = <<>> THEN args ELSE bound[Len(bound)]

\* the arguments the base function receives when a step wrapped by the binds
\* `bound` is called with `args`: f.apply.bind(f, null, params)(...args) is
\* f.apply(null, params, ...args), and apply reads its first two arguments
RECURSIVE arguments(_, _)
arguments(bound, args) ==
    IF bound = <<>> THEN args
    ELSE arguments(SubSeq(bound, 1, Len(bound) - 1), bound[Len(bound)])

\* the state of one test() call that its callbacks share
Closure ==
    [stepIndex |-> stepIndex, failureReasons |-> failureReasons, deferred |-> deferred,
     report |-> report, result |-> result, pendingReads |-> pendingReads, invoked |-> invoked,
     issued |-> issued]

\* fulfillPromise with its test negated
fulfillPromiseNegated(c) ==
    IF ~ (Len(c.failureReasons.failures) # 0 \/ Len(c.failureReasons.errors) # 0)
    THEN [c EXCEPT !.deferred = "rejected", !.report = Value(c.failureReasons)]
    ELSE [c EXCEPT !.deferred = "resolved", !.report = NoValue]

\* fulfillPromise that looks at `failures` alone
fulfillPromiseOnFailures(c) ==
    IF Len(c.failureReasons.failures) # 0
    THEN [c EXCEPT !.deferred = "rejected", !.report = Value(c.failureReasons)]
    ELSE [c EXCEPT !.deferred = "resolved", !.report = NoValue]

\* fulfillPromise(report)
fulfillPromise(c) ==
    IF Len(c.failureReasons.failures) # 0 \/ Len(c.failureReasons.errors) # 0
    THEN [c EXCEPT !.deferred = "rejected", !.report = Value(c.failureReasons)]
    ELSE [c EXCEPT !.deferred = "resolved", !.report = NoValue]

\* the closure without its special case for {}
assertionThunkNoEmptyCase(t, i, s, c) ==
    LET asked == { [test |-> t, step |-> i, key |-> k] : k \in 1..Len(s.hooksVals) }
    IN  [c EXCEPT !.pendingReads = @ \cup { [test |-> r.test, step |-> r.step,
                                            key |-> r.key, stage |-> "locate"] : r \in asked },
                  !.issued = @ \cup asked,
                  !.result = Handle("pending", i, NoMessage)]

\* the closure buildAssertionPromise returned, called as step i of test t:
\* one Object.getFromPath per key, and the promise of `evaluator`
assertionThunk(t, i, s, c) ==
    LET asked == { [test |-> t, step |-> i, key |-> k] : k \in 1..Len(s.hooksVals) }
        isEmpty == Len(s.hooksVals) = 0
    IN  [c EXCEPT !.pendingReads = @ \cup { [test |-> r.test, step |-> r.step,
                                            key |-> r.key, stage |-> "locate"] : r \in asked },
                  !.issued = @ \cup asked,
                  !.result = Handle(IF isEmpty THEN "resolved" ELSE "pending", i, NoMessage)]

\* evalNext: the steps from stepIndex + 1 on, up to the first one that returns a handle
RECURSIVE evalNext(_, _)
evalNext(t, c) ==
    LET i == c.stepIndex + 1
        s == steps[i + 1]
        called == [c EXCEPT !.stepIndex = i,
                            !.invoked = Append(@, [test |-> t, step |-> i, src |-> s.src,
                                                   args |-> arguments(s.bound, <<>>)])]
    IN  IF i = Len(steps) THEN fulfillPromise([c EXCEPT !.stepIndex = i])
        ELSE IF s.kind = "assertion" THEN assertionThunk(t, i, s, called)
        ELSE IF s.beh = "throws"
        THEN evalNext(t, [called EXCEPT !.failureReasons.errors =
                              Append(@, Message("thrown", s.src, <<>>, "", ""))])
        ELSE IF s.beh = "plain" THEN evalNext(t, called)
        ELSE [called EXCEPT !.result = Handle("pending", i, NoMessage)]

\* handleFailure that files the rejection under `errors`
handleFailureAsError(t, message, c) ==
    evalNext(t, [c EXCEPT !.failureReasons.errors = Append(@, message)])

\* handleFailure that puts the latest failure first
handleFailureUnshifts(t, message, c) ==
    evalNext(t, [c EXCEPT !.failureReasons.failures = <<message>> \o @])

\* handleFailure that reports at once instead of going on with the next step
handleFailureStops(t, message, c) ==
    fulfillPromise([c EXCEPT !.failureReasons.failures = Append(@, message)])

\* handleFailure(message)
handleFailure(t, message, c) ==
    evalNext(t, [c EXCEPT !.failureReasons.failures = Append(@, message)])

\* history: the handle `res`, once settled, is on record
Observed(res) ==
    IF res.state \in {"resolved", "rejected"} THEN outcomes \cup {res} ELSE outcomes

\* history: read r ended with `verdict`, the driver having answered `actual`
Answered(r, verdict, actual) ==
    answers \cup {[test |-> r.test, step |-> r.step, key |-> r.key, verdict |-> verdict,
                   actual |-> actual]}

\* the closure state as an action leaves it
Becomes(c) ==
    /\ stepIndex' = c.stepIndex
    /\ failureReasons' = c.failureReasons
    /\ deferred' = c.deferred
    /\ report' = c.report
    /\ result' = c.result
    /\ pendingReads' = c.pendingReads
    /\ invoked' = c.invoked
    /\ issued' = c.issued
    /\ outcomes' = Observed(c.result)

\* feature.test()
Test ==
    /\ feature = "constructed"
    /\ tests = 0
    /\ tests' = tests + 1
    /\ Becomes(evalNext(tests + 1,
                        [Closure EXCEPT !.stepIndex = 0 - 1, !.failureReasons = NoReasons,
                                        !.deferred = "pending", !.report = NoValue,
                                        !.result = NoResult]))
    /\ UNCHANGED <<scenario, widgets, feature, steps, matchesLeft, answers>>
    /\ UNCHANGED <<runnerVars, loaderVars>>

\* the handle test() awaits is one a function step returned, and it is to settle
toSettle ==
    /\ result.state = "pending"
    /\ steps[result.step + 1].kind = "function"
    /\ steps[result.step + 1].beh \in {"resolves", "rejects"}

\* the handle test() awaits has settled, and its callback has not run yet
callbackReady ==
    /\ deferred = "pending"
    /\ result.state \in {"resolved", "rejected"}

\* the handle a function step returned settles
SettleResult ==
    /\ toSettle
    /\ \/ /\ steps[result.step + 1].beh = "resolves"
          /\ result' = [result EXCEPT !.state = "resolved"]
       \/ /\ steps[result.step + 1].beh = "rejects"
          /\ result' = [result EXCEPT !.state = "rejected",
                           !.reason = Message("rejected", steps[result.step + 1].src, <<>>, "", "")]
    /\ outcomes' = Observed(result')
    /\ UNCHANGED <<scenario, widgets, feature, steps, matchesLeft, tests, deferred,
                   stepIndex, failureReasons, report, pendingReads, invoked, issued, answers>>
    /\ UNCHANGED <<runnerVars, loaderVars>>

\* result.then(evaluateNext, handleFailure): one of the two callbacks runs
ResultCallback ==
    /\ callbackReady
    /\ \/ /\ result.state = "resolved"
          /\ Becomes(evalNext(tests, [Closure EXCEPT !.result = NoResult]))
       \/ /\ result.state = "rejected"
          /\ Becomes(handleFailure(tests, result.reason, [Closure EXCEPT !.result = NoResult]))
    /\ UNCHANGED <<scenario, widgets, feature, steps, matchesLeft, tests, answers>>
    /\ UNCHANGED <<runnerVars, loaderVars>>

(***************************************************************************)
(* The reads of an assertion thunk (buildAssertionPromise, lines 284-311). *)
(***************************************************************************)
\* what the driver may answer to getText(): the empty text of an input field,
\* or some text
Texts == {"", "a", "b"}

\* what the driver may answer to getAttribute('value')
Values == {"a", "b"}

\* the key of the state description a read belongs to
hookOf(r) == steps[r.step + 1].hooksVals[r.key]

\* is the evaluator of read r the handle test() is waiting for?
awaited(r) ==
    /\ result.state # "none"
    /\ result.step = r.step
    /\ r.test = tests

\* evaluator.reject on a deferred that can be rejected again
rejectAgain(r, res, reason) ==
    IF awaited(r) /\ res.state \in {"pending", "rejected"}
    THEN [res EXCEPT !.state = "rejected", !.reason = reason]
    ELSE res

\* evaluator.reject(reason): a deferred settles once
reject(r, res, reason) ==
    IF awaited(r) /\ res.state = "pending"
    THEN [res EXCEPT !.state = "rejected", !.reason = reason]
    ELSE res

\* evaluator.resolve()
resolve(r, res) ==
    IF awaited(r) /\ res.state = "pending"
    THEN [res EXCEPT !.state = "resolved"]
    ELSE res

\* compareTo that resolves on a match without counting the matches left
compareToResolvesOnMatch(r, actual) ==
    LET compared == IF hookOf(r).expected # actual
                    THEN reject(r, result, Message("mismatch", steps[r.step + 1].src,
                                    hookOf(r).attribute, actual, hookOf(r).expected))
                    ELSE resolve(r, result)
    IN  [result |-> compared,
         matchesLeft |-> [matchesLeft EXCEPT ![r.step + 1] = @ - 1]]

\* compareTo with its comparison negated
compareToNegated(r, actual) ==
    LET compared == IF hookOf(r).expected = actual
                    THEN reject(r, result, Message("mismatch", steps[r.step + 1].src,
                                    hookOf(r).attribute, actual, hookOf(r).expected))
                    ELSE result
        left == matchesLeft[r.step + 1] - 1
    IN  [result |-> IF left = 0 THEN resolve(r, compared) ELSE compared,
         matchesLeft |-> [matchesLeft EXCEPT ![r.step + 1] = left]]

\* compareTo(actual): the handle and `matchesLeft` of the thunk afterwards
compareTo(r, actual) ==
    LET compared == IF hookOf(r).expected # actual
                    THEN reject(r, result, Message("mismatch", steps[r.step + 1].src,
                                    hookOf(r).attribute, actual, hookOf(r).expected))
                    ELSE result
        left == matchesLeft[r.step + 1] - 1
    IN  [result |-> IF left = 0 THEN resolve(r, compared) ELSE compared,
         matchesLeft |-> [matchesLeft EXCEPT ![r.step + 1] = left]]

\* history: what the driver answered, against what the key expects
verdictOf(r, actual) == IF hookOf(r).expected # actual THEN "mismatch" ELSE "match"

\* getFromPath whose rejection is not handled
LocateDoneUnhandled(r, found) ==
    /\ r \in pendingReads
    /\ r.stage = "locate"
    /\ IF found
       THEN /\ pendingReads' = (pendingReads \ {r}) \cup {[r EXCEPT !.stage = "text"]}
            /\ UNCHANGED <<result, answers>>
       ELSE /\ pendingReads' = pendingReads \ {r}
            /\ answers' = Answered(r, "absent", "")
            /\ UNCHANGED result
    /\ outcomes' = Observed(result')
    /\ UNCHANGED <<scenario, widgets, feature, steps, matchesLeft, tests, deferred,
                   stepIndex, failureReasons, report, invoked, issued>>
    /\ UNCHANGED <<runnerVars, loaderVars>>

\* Object.getFromPath(widgets, attribute) settles: the element is found on the
\* page, and getText() is asked for, or it is not
LocateDone(r, found) ==
    /\ r \in pendingReads
    /\ r.stage = "locate"
    /\ IF found
       THEN /\ pendingReads' = (pendingReads \ {r}) \cup {[r EXCEPT !.stage = "text"]}
            /\ UNCHANGED <<result, answers>>
       ELSE /\ pendingReads' = pendingReads \ {r}
            /\ answers' = Answered(r, "absent", "")
            /\ result' = reject(r, result, Message("absent", steps[r.step + 1].src,
                                                   hookOf(r).attribute, "", hookOf(r).expected))
    /\ outcomes' = Observed(result')
    /\ UNCHANGED <<scenario, widgets, feature, steps, matchesLeft, tests, deferred,
                   stepIndex, failureReasons, report, invoked, issued>>
    /\ UNCHANGED <<runnerVars, loaderVars>>

\* target.getText() settles
GetTextDone(r, ok, text) ==
    /\ r \in pendingReads
    /\ r.stage = "text"
    /\ IF ~ ok
       THEN /\ pendingReads' = pendingReads \ {r}
            /\ result' = reject(r, result, Message("noText", steps[r.step + 1].src,
                                                   hookOf(r).attribute, "", hookOf(r).expected))
            /\ answers' = Answered(r, "error", "")
            /\ UNCHANGED matchesLeft
       ELSE IF text # ""
       THEN /\ pendingReads' = pendingReads \ {r}
            /\ result' = compareTo(r, text).result
            /\ matchesLeft' = compareTo(r, text).matchesLeft
            /\ answers' = Answered(r, verdictOf(r, text), text)
       ELSE /\ pendingReads' = (pendingReads \ {r}) \cup {[r EXCEPT !.stage = "value"]}
            /\ UNCHANGED <<result, matchesLeft, answers>>
    /\ outcomes' = Observed(result')
    /\ UNCHANGED <<scenario, widgets, feature, steps, tests, deferred,
                   stepIndex, failureReasons, report, invoked, issued>>
    /\ UNCHANGED <<runnerVars, loaderVars>>

\* target.getAttribute('value') settles
GetValueDone(r, ok, value) ==
    /\ r \in pendingReads
    /\ r.stage = "value"
    /\ pendingReads' = pendingReads \ {r}
    /\ IF ~ ok
       THEN /\ result' = reject(r, result, Message("noValue", steps[r.step + 1].src,
                                                   hookOf(r).attribute, "", hookOf(r).expected))
            /\ answers' = Answered(r, "error", "")
            /\ UNCHANGED matchesLeft
       ELSE /\ result' = compareTo(r, value).result
            /\ matchesLeft' = compareTo(r, value).matchesLeft
            /\ answers' = Answered(r, verdictOf(r, value), value)
    /\ outcomes' = Observed(result')
    /\ UNCHANGED <<scenario, widgets, feature, steps, tests, deferred,
                   stepIndex, failureReasons, report, invoked, issued>>
    /\ UNCHANGED <<runnerVars, loaderVars>>

Next ==
    \/ FeatureInit
    \/ Test
    \/ SettleResult
    \/ ResultCallback
    \/ \E r \in pendingReads, found \in BOOLEAN : LocateDone(r, found)
    \/ \E r \in pendingReads, text \in Texts : GetTextDone(r, TRUE, text)
    \/ \E r \in pendingReads : GetTextDone(r, FALSE, "")
    \/ \E r \in pendingReads, value \in Values : GetValueDone(r, TRUE, value)
    \/ \E r \in pendingReads : GetValueDone(r, FALSE, "")

Spec == Init /\ [][Next]_vars

\* feature.test() of a Feature that was evaluated before, as a second
\* Runner.run() calls it: the first evaluation is over and the driver has
\* answered all it was asked; the steps are the closures loadScenario made
TestAgain ==
    /\ feature = "constructed"
    /\ tests = 1
    /\ deferred \in {"resolved", "rejected"}
    /\ pendingReads = {}
    /\ tests' = tests + 1
    /\ Becomes(evalNext(tests + 1,
                        [Closure EXCEPT !.stepIndex = 0 - 1, !.failureReasons = NoReasons,
                                        !.deferred = "pending", !.report = NoValue,
                                        !.result = NoResult]))
    /\ UNCHANGED <<scenario, widgets, feature, steps, matchesLeft, answers>>
    /\ UNCHANGED <<runnerVars, loaderVars>>

RerunNext ==
    \/ Next
    \/ TestAgain

\* a Feature evaluated once, and then once more
RerunSpec == Init /\ [][RerunNext]_vars

(***************************************************************************)
(* Runner: run -> evaluateFeature -> handleFeatureResult -> postFeature    *)
(* -> finish.                                                              *)
(***************************************************************************)
\* a Feature as the Runner sees it: the steps its test() goes through, each
\* one passing, failing (a throw or a rejected handle) or never settling
Evaluable(description, behaviours) == [description |-> description, steps |-> behaviours]

\* the Features explored
FeatureKinds ==
    { Evaluable("empty", <<>>),
      Evaluable("passes", <<"passes">>),
      Evaluable("fails", <<"fails">>),
      Evaluable("fails then passes", <<"fails", "passes">>),
      Evaluable("hangs", <<"passes", "hangs">>) }

\* the state of the Runner that its methods read and write
RunnerState ==
    [failed |-> failed, currentFeature |-> currentFeature, evaluation |-> evaluation,
     finished |-> finished, quits |-> quits, evaluated |-> evaluated]

\* the handle of a Feature whose test() has gone through its steps up to `step`
handleOf(f, step) ==
    IF step < Len(f.steps) THEN "running"
    ELSE IF \E k \in DOMAIN f.steps : f.steps[k] = "fails" THEN "rejected"
    ELSE "resolved"

\* finish that finds no driver to quit
finishKeepsSession(r, success) ==
    [r EXCEPT !.finished = Append(@, success), !.evaluation = NoEvaluation]

\* finish(success): `this.driver` is set by the constructor
finish(r, success) ==
    [r EXCEPT !.finished = Append(@, success), !.quits = @ + 1,
              !.evaluation = NoEvaluation]

\* evaluateFeature(this.features[i]), i counted from 0: features[i] is
\* `undefined` past the end of the list, and `undefined.test` throws
evaluateFeature(r, i) ==
    IF i >= Len(features) THEN finish(r, FALSE)
    ELSE [r EXCEPT !.evaluated = Append(@, i),
                   !.evaluation = [feature |-> i, step |-> 0,
                                   state |-> handleOf(features[i + 1], 0)]]

\* postFeature that gives up once a Feature has failed
postFeatureStopsOnFailure(r) ==
    LET next == [r EXCEPT !.currentFeature = @ + 1]
    IN  IF next.currentFeature < Len(features) /\ ~ next.failed
        THEN evaluateFeature(next, next.currentFeature)
        ELSE finish(next, ~ next.failed)

\* postFeature()
postFeature(r) ==
    LET next == [r EXCEPT !.currentFeature = @ + 1]
    IN  IF next.currentFeature < Len(features)
        THEN evaluateFeature(next, next.currentFeature)
        ELSE finish(next, ~ next.failed)

\* handleFeatureResult that keeps the outcome of the latest Feature alone
handleFeatureResultLatest(r, message) ==
    postFeature([r EXCEPT !.failed = (message # "true")])

\* handleFeatureResult(feature, message): message is `true` or the report
handleFeatureResult(r, message) ==
    IF message = "true" THEN postFeature(r)
    ELSE postFeature([r EXCEPT !.failed = TRUE])

\* a rejection handler of driver.get that is never called
navigationFailedUnheard(r) == r

\* the rejection handler of driver.get(baseURL)
navigationFailed(r) == finish(r, FALSE)

\* the Runner state as an action leaves it
RunnerBecomes(r) ==
    /\ failed' = r.failed
    /\ currentFeature' = r.currentFeature
    /\ evaluation' = r.evaluation
    /\ finished' = r.finished
    /\ quits' = r.quits
    /\ evaluated' = r.evaluated

\* a Runner with its Features added, before run()
RunnerInit ==
    /\ scenario = <<>>
    /\ widgets = TestWidgets
    /\ feature = "none"
    /\ steps = <<>>
    /\ matchesLeft = <<>>
    /\ tests = 0
    /\ deferred = "none"
    /\ stepIndex = 0 - 1
    /\ failureReasons = NoReasons
    /\ report = NoValue
    /\ result = NoResult
    /\ pendingReads = {}
    /\ invoked = <<>>
    /\ issued = {}
    /\ answers = {}
    /\ outcomes = {}
    /\ features \in SeqsUpTo(FeatureKinds, MaxFeatures)
    /\ failed = FALSE
    /\ currentFeature = 0
    /\ navigation = "none"
    /\ evaluation = NoEvaluation
    /\ finished = <<>>
    /\ quits = 0
    /\ evaluated = <<>>
    /\ results = <<>>
    /\ LoaderIdle

\* runner.run()
Run ==
    /\ navigation = "none"
    /\ failed' = FALSE
    /\ currentFeature' = 0
    /\ navigation' = "pending"
    /\ UNCHANGED <<features, evaluation, finished, quits, evaluated, results>>
    /\ UNCHANGED <<featureVars, loaderVars>>

\* driver.get(baseURL) is resolved: evaluateFeature(features[0])
NavigationSucceeded ==
    /\ navigation = "pending"
    /\ navigation' = "succeeded"
    /\ RunnerBecomes(evaluateFeature(RunnerState, 0))
    /\ UNCHANGED <<features, results>>
    /\ UNCHANGED <<featureVars, loaderVars>>

\* driver.get(baseURL) is rejected
NavigationFailed ==
    /\ navigation = "pending"
    /\ navigation' = "failed"
    /\ RunnerBecomes(navigationFailed(RunnerState))
    /\ UNCHANGED <<features, results>>
    /\ UNCHANGED <<featureVars, loaderVars>>

\* the Feature under evaluation goes through its next step, and its handle
\* settles after the last one
StepSettles ==
    /\ evaluation.state = "running"
    /\ features[evaluation.feature + 1].steps[evaluation.step + 1] # "hangs"
    /\ evaluation' = [evaluation EXCEPT
                          !.step = @ + 1,
                          !.state = handleOf(features[evaluation.feature + 1],
                                             evaluation.step + 1)]
    /\ UNCHANGED <<features, failed, currentFeature, navigation, finished, quits,
                   evaluated, results>>
    /\ UNCHANGED <<featureVars, loaderVars>>

\* feature.test().then(...): one of the two bound handleFeatureResult runs
FeatureResult ==
    /\ evaluation.state \in {"resolved", "rejected"}
    /\ results' = Append(results, evaluation.state)
    /\ RunnerBecomes(handleFeatureResult(RunnerState,
                         IF evaluation.state = "resolved" THEN "true" ELSE "report"))
    /\ UNCHANGED <<features, navigation>>
    /\ UNCHANGED <<featureVars, loaderVars>>

RunnerNext ==
    \/ Run
    \/ NavigationSucceeded
    \/ NavigationFailed
    \/ StepSettles
    \/ FeatureResult

\* the driver answers the navigation, the handles that settle do, and the
\* event loop runs the callbacks that are ready
RunnerSpec ==
    /\ RunnerInit
    /\ [][RunnerNext]_vars
    /\ WF_vars(NavigationSucceeded \/ NavigationFailed)
    /\ WF_vars(StepSettles)
    /\ WF_vars(FeatureResult)

(***************************************************************************)
(* SuiteLoader: initialize -> (fs.readdir) -> loadAllFiles -> loadData,    *)
(* loadWidget, loadFeature.                                                *)
(***************************************************************************)
\* SuiteLoader.paths: the naming patterns
dataMarker == "Data.js"
widgetMarker == "Widget.js"
featureMarker == "Feature.js"

\* a file name is written in pieces: <<"Clock", "Widget.js">> is ClockWidget.js;
\* file.contains(marker)
contains(file, marker) == \E i \in DOMAIN file : file[i] = marker

\* a piece without its extension
withoutExtension(piece) ==
    CASE piece = "Data.js" -> "Data"
      [] piece = "Widget.js" -> "Widget"
      [] piece = "Feature.js" -> "Feature"
      [] piece = "config.js" -> "config"
      [] OTHER -> piece

\* pathsUtils.basename(widgetFile, '.js')
basename(file) ==
    [i \in DOMAIN file |-> IF i = Len(file) THEN withoutExtension(file[i]) ELSE file[i]]

\* what a file holds: whether it parses, the globals its evaluation needs
\* and defines and, for a feature description, its description, its
\* scenario and the steps test() goes through
Content(sound, needs, defines, description, scn, behaviours) ==
    [sound |-> sound, needs |-> needs, defines |-> defines,
     description |-> description, scenario |-> scn, steps |-> behaviours]

\* the suite folder: fs.readFileSync(file)
readFileSync(file) ==
    CASE file = <<"city", "Data.js">> ->
             Content(TRUE, {}, {<<"city">>}, "", <<>>, <<>>)
      [] file = <<"broken", "Data.js">> ->
             Content(FALSE, {}, {}, "", <<>>, <<>>)
      [] file = <<"Clock", "Widget.js">> ->
             Content(TRUE, {}, {}, "", <<>>, <<>>)
      [] file = <<"Form", "Widget.js">> ->
             Content(TRUE, {<<"city">>}, {}, "", <<>>, <<>>)
      [] file = <<"Clock", "Feature.js">> ->
             Content(TRUE, {}, {}, "clock",
                     <<Hash(<<HV(<< <<"Clock", "Widget">>, "result" >>, "14")>>)>>,
                     <<"passes">>)
      [] file = <<"Form", "Feature.js">> ->
             Content(TRUE, {<<"city">>}, {}, "form",
                     <<Fn("resolves"), Arr(<<"Paris">>),
                       Hash(<<HV(<< <<"Form", "Widget">>, "field" >>, "Paris"),
                              HV(<< <<"Clock", "Widget">>, "result" >>, "14")>>)>>,
                     <<"passes", "fails">>)
      [] OTHER -> Content(TRUE, {}, {}, "", <<>>, <<>>)

\* the files a suite folder may hold
SuiteFiles ==
    { <<"city", "Data.js">>, <<"broken", "Data.js">>, <<"Clock", "Widget.js">>,
      <<"Form", "Widget.js">>, <<"Clock", "Feature.js">>, <<"Form", "Feature.js">>,
      <<"config.js">> }

\* the listings fs.readdir may give: every file once, in any order
Listings ==
    { l \in SeqsUpTo(SuiteFiles, MaxFiles) : \A i, j \in DOMAIN l : i # j => l[i] # l[j] }

\* the state loadAllFiles reads and writes
LoaderState ==
    [context |-> context, bridge |-> bridge, features |-> features, loaded |-> loaded,
     threw |-> FALSE]

\* history: `file` was evaluated as a file of kind `as`
Evaluated(L, file, as, ok) ==
    [L EXCEPT !.loaded = Append(@, [file |-> file, as |-> as, ok |-> ok,
                                    widgetsList |-> L.context.widgetsList])]

\* vm.runInContext(...) of this content does not throw: the content parses
\* and the globals it reads are defined
runs(L, content) == content.sound /\ content.needs \subseteq L.context.globals

\* loadData(dataFile)
loadData(L, file) ==
    LET content == readFileSync(file)
    IN  IF ~ runs(L, content) THEN [Evaluated(L, file, "data", FALSE) EXCEPT !.threw = TRUE]
        ELSE [Evaluated(L, file, "data", TRUE) EXCEPT
                  !.context.globals = @ \cup content.defines]

\* a loadWidget whose catch logs the error and does not throw it again
loadWidgetLogsOnly(L, file) ==
    LET content == readFileSync(file)
        widgetName == basename(file)
    IN  IF ~ runs(L, content) THEN Evaluated(L, file, "widget", FALSE)
        ELSE [Evaluated(L, file, "widget", TRUE) EXCEPT
                  !.context.globals = @ \cup {widgetName},
                  !.context.widgetsList = @ \cup {widgetName}]

\* loadWidget(widgetFile): widgetName = __widgets__[widgetName] = new Widget(...)
loadWidget(L, file) ==
    LET content == readFileSync(file)
        widgetName == basename(file)
    IN  IF ~ runs(L, content) THEN [Evaluated(L, file, "widget", FALSE) EXCEPT !.threw = TRUE]
        ELSE [Evaluated(L, file, "widget", TRUE) EXCEPT
                  !.context.globals = @ \cup {widgetName},
                  !.context.widgetsList = @ \cup {widgetName}]

\* a loadFeature that gives the Runner the last Feature of the shared list
\* and leaves it there
loadFeatureKeepsShared(L, file) ==
    LET content == readFileSync(file)
        constructed == ~ loadScenario(L.context.widgetsList, content.scenario).threw
        pushed == Append(L.bridge, Evaluable(content.description, content.steps))
    IN  IF ~ (runs(L, content) /\ constructed)
        THEN [Evaluated(L, file, "feature", FALSE) EXCEPT !.threw = TRUE]
        ELSE [Evaluated(L, file, "feature", TRUE) EXCEPT
                  !.bridge = pushed,
                  !.features = Append(@, pushed[Len(pushed)])]

\* loadFeature(featureFile): __features__.push(new Feature(description,
\* scenario, __widgets__)), then this.runner.addFeature(this.features.pop())
loadFeature(L, file) ==
    LET content == readFileSync(file)
        constructed == ~ loadScenario(L.context.widgetsList, content.scenario).threw
        pushed == Append(L.bridge, Evaluable(content.description, content.steps))
    IN  IF ~ (runs(L, content) /\ constructed)
        THEN [Evaluated(L, file, "feature", FALSE) EXCEPT !.threw = TRUE]
        ELSE [Evaluated(L, file, "feature", TRUE) EXCEPT
                  !.bridge = SubSeq(pushed, 1, Len(pushed) - 1),
                  !.features = Append(@, pushed[Len(pushed)])]

\* widgetFiles.forEach(this.loadWidget.bind(this)), from the idx-th on; a
\* throw of loadWidget leaves the loop
RECURSIVE forEachWidget(_, _, _)
forEachWidget(L, widgetFiles, idx) ==
    IF L.threw \/ idx > Len(widgetFiles) THEN L
    ELSE forEachWidget(loadWidget(L, widgetFiles[idx]), widgetFiles, idx + 1)

\* featureFiles.forEach(this.loadFeature.bind(this))
RECURSIVE forEachFeature(_, _, _)
forEachFeature(L, featureFiles, idx) ==
    IF L.threw \/ idx > Len(featureFiles) THEN L
    ELSE forEachFeature(loadFeature(L, featureFiles[idx]), featureFiles, idx + 1)

\* the lists loadAllFiles sorts the listing into
Sorted(L, widgetFiles, featureFiles) ==
    [state |-> L, widgetFiles |-> widgetFiles, featureFiles |-> featureFiles]

\* files.forEach that loads a widget description as soon as it meets it
forEachFileAtOnce(L, listed, idx, widgetFiles, featureFiles) ==
    LET RECURSIVE go(_, _, _)
        go(M, i, ff) ==
            IF M.threw \/ i > Len(listed) THEN Sorted(M, <<>>, ff)
            ELSE IF contains(listed[i], dataMarker) THEN go(loadData(M, listed[i]), i + 1, ff)
            ELSE IF contains(listed[i], widgetMarker) THEN go(loadWidget(M, listed[i]), i + 1, ff)
            ELSE IF contains(listed[i], featureMarker) THEN go(M, i + 1, Append(ff, listed[i]))
            ELSE go(M, i + 1, ff)
    IN  go(L, idx, featureFiles)

\* files.forEach(function(file) {...}), from the idx-th file on: the data
\* are loaded at once, the widget and feature descriptions are kept for later
RECURSIVE forEachFile(_, _, _, _, _)
forEachFile(L, listed, idx, widgetFiles, featureFiles) ==
    IF L.threw \/ idx > Len(listed) THEN Sorted(L, widgetFiles, featureFiles)
    ELSE IF contains(listed[idx], dataMarker)
    THEN forEachFile(loadData(L, listed[idx]), listed, idx + 1, widgetFiles, featureFiles)
    ELSE IF contains(listed[idx], widgetMarker)
    THEN forEachFile(L, listed, idx + 1, Append(widgetFiles, listed[idx]), featureFiles)
    ELSE IF contains(listed[idx], featureMarker)
    THEN forEachFile(L, listed, idx + 1, widgetFiles, Append(featureFiles, listed[idx]))
    ELSE forEachFile(L, listed, idx + 1, widgetFiles, featureFiles)

\* loadAllFiles(null, files)
loadAllFiles(L, listed) ==
    LET sorted == forEachFile(L, listed, 1, <<>>, <<>>)
        withWidgets == forEachWidget(sorted.state, sorted.widgetFiles, 1)
    IN  forEachFeature(withWidgets, sorted.featureFiles, 1)

\* a suite folder, before `new SuiteLoader(path)`
LoaderInit ==
    /\ scenario = <<>>
    /\ widgets = TestWidgets
    /\ feature = "none"
    /\ steps = <<>>
    /\ matchesLeft = <<>>
    /\ tests = 0
    /\ deferred = "none"
    /\ stepIndex = 0 - 1
    /\ failureReasons = NoReasons
    /\ report = NoValue
    /\ result = NoResult
    /\ pendingReads = {}
    /\ invoked = <<>>
    /\ issued = {}
    /\ answers = {}
    /\ outcomes = {}
    /\ RunnerIdle
    /\ files \in Listings
    /\ config \in {"loadable", "missing"}
    /\ loader = "none"
    /\ runner = "none"
    /\ listing = "none"
    /\ context = NoContext
    /\ bridge = <<>>
    /\ loaded = <<>>

\* an initialize that makes the Runner before it requires the configuration
SuiteLoaderInitializeRunnerFirst ==
    /\ loader = "none"
    /\ runner' = "created"
    /\ IF config = "missing"
       THEN /\ loader' = "threw"
            /\ UNCHANGED <<listing, context>>
       ELSE /\ loader' = "constructed"
            /\ context' = [globals |-> {}, widgetsList |-> {}]
            /\ listing' = "pending"
    /\ UNCHANGED <<files, config, bridge, loaded>>
    /\ UNCHANGED <<featureVars, runnerVars>>

\* new SuiteLoader(path): require(config), new Runner, buildContext, fs.readdir
SuiteLoaderInitialize ==
    /\ loader = "none"
    /\ IF config = "missing"
       THEN /\ loader' = "threw"
            /\ UNCHANGED <<runner, listing, context>>
       ELSE /\ loader' = "constructed"
            /\ runner' = "created"
            /\ context' = [globals |-> {}, widgetsList |-> {}]
            /\ listing' = "pending"
    /\ UNCHANGED <<files, config, bridge, loaded>>
    /\ UNCHANGED <<featureVars, runnerVars>>

\* the callback of fs.readdir, called with the listing
LoadAllFiles ==
    /\ listing = "pending"
    /\ LET L == loadAllFiles(LoaderState, files)
       IN  /\ listing' = IF L.threw THEN "threw" ELSE "loaded"
           /\ context' = L.context
           /\ bridge' = L.bridge
           /\ features' = L.features
           /\ loaded' = L.loaded
    /\ UNCHANGED <<files, config, loader, runner>>
    /\ UNCHANGED <<failed, currentFeature, navigation, evaluation, finished, quits,
                   evaluated, results>>
    /\ UNCHANGED featureVars

\* the callback of fs.readdir, called with an error: loadAllFiles throws it
ReaddirFailed ==
    /\ listing = "pending"
    /\ listing' = "threw"
    /\ UNCHANGED <<files, config, loader, runner, context, bridge, loaded>>
    /\ UNCHANGED <<featureVars, runnerVars>>

LoaderNext ==
    \/ SuiteLoaderInitialize
    \/ LoadAllFiles
    \/ ReaddirFailed

LoaderSpec == LoaderInit /\ [][LoaderNext]_vars

(***************************************************************************)
(* A suite from its construction to the end of its run: the caller of      *)
(* `new SuiteLoader(path)` calls run() on the loader it was given, while   *)
(* the callbacks of fs.readdir and of driver.get wait for their turn.      *)
(***************************************************************************)
\* SuiteLoader.run(): this.runner.run()
SuiteLoaderRun ==
    /\ loader = "constructed"
    /\ Run

SuiteNext ==
    \/ SuiteLoaderInitialize
    \/ LoadAllFiles
    \/ ReaddirFailed
    \/ SuiteLoaderRun
    \/ NavigationSucceeded
    \/ NavigationFailed
    \/ StepSettles
    \/ FeatureResult

SuiteSpec == LoaderInit /\ [][SuiteNext]_vars

(***************************************************************************)
(* Vocabulary of the properties.                                           *)
(***************************************************************************)
\* the outer handle of test() has settled
settled == deferred \in {"resolved", "rejected"}

\* compiled step i, counted from 0 as `stepIndex` counts
stepAt(i) == steps[i + 1]

\* the indices of the compiled steps
StepIndices == 0..(Len(steps) - 1)

\* step i has been called
wasInvoked(i) == \E j \in DOMAIN invoked : invoked[j].step = i

\* step i is a function that throws when it is called
throwsAt(i) == stepAt(i).kind = "function" /\ stepAt(i).beh = "throws"

\* step i returns a plain value
plainAt(i) == stepAt(i).kind = "function" /\ stepAt(i).beh = "plain"

\* the handle step i returned has been rejected
rejectedAt(i) == \E o \in outcomes : o.step = i /\ o.state = "rejected"

\* the handle step i returned has been resolved
resolvedAt(i) == \E o \in outcomes : o.step = i /\ o.state = "resolved"

\* the entries of a list of reasons that come from the step compiled from
\* scenario element src
entriesOf(list, src) == { j \in DOMAIN list : list[j].src = src }

\* the entries of `list` come from steps in increasing order
inStepOrder(list) ==
    \A j, k \in DOMAIN list : j < k => list[j].src < list[k].src

(***************************************************************************)
(* C1.  test() calls every compiled step exactly once and in list order;   *)
(* step i+1 is called only after step i returned a plain value, threw, or  *)
(* had its handle settle; a throw or a rejection never keeps the later     *)
(* steps from being called; the outer handle settles only after the last   *)
(* step was attempted, and does settle if every returned handle settles:   *)
(* every step of a run takes away from a finite amount of work, and as     *)
(* long as the outer handle is pending some step can be taken.             *)
(***************************************************************************)
\* the j-th call is the call of step j - 1
C1_InOrder == \A j \in DOMAIN invoked : invoked[j].step = j - 1 /\ j <= Len(steps)

\* a settled outer handle: every step was called, no handle is awaited, and
\* every step that returned a handle saw it settle
C1_SettlesLast ==
    settled =>
        /\ Len(invoked) = Len(steps)
        /\ result.state = "none"
        /\ \A i \in StepIndices : throwsAt(i) \/ plainAt(i) \/ rejectedAt(i) \/ resolvedAt(i)

\* a call made by this step: its predecessor returned a plain value or threw
\* in the same task, or returned a handle earlier, which has settled by now
C1_Waits ==
    \A j \in (Len(invoked) + 1)..Len(invoked') :
        j > 1 =>
            IF j - 1 <= Len(invoked)
            THEN /\ result.step = j - 2
                 /\ result.state \in {"resolved", "rejected"}
            ELSE throwsAt(j - 2) \/ plainAt(j - 2)

\* test() awaits a handle that never settles
awaitsForever ==
    /\ result.state = "pending"
    /\ stepAt(result.step).kind = "function"
    /\ stepAt(result.step).beh = "pending"

\* while test() runs and the handle it awaits is one that settles, that
\* handle is to settle (SettleResult), its callback is ready (ResultCallback)
\* or the driver has a read to answer (LocateDone, GetTextDone, GetValueDone)
C1_CanGoOn ==
    (tests = 1 /\ ~ settled /\ ~ awaitsForever)
        => (toSettle \/ callbackReady \/ pendingReads # {})

\* the work left: the call of test(), the steps not called yet with the reads
\* they will ask for, the handle awaited and the reads not answered
RECURSIVE workOfSteps(_)
workOfSteps(i) ==
    IF i >= Len(steps) THEN 0
    ELSE 3 + 3 * Len(stepAt(i).hooksVals) + workOfSteps(i + 1)

RECURSIVE workOfScenario(_)
workOfScenario(idx) ==
    IF idx > Len(scenario) THEN 0
    ELSE 3 + 3 * Len(scenario[idx].hooksVals) + workOfScenario(idx + 1)

workLeft ==
    IF feature = "none" THEN 2 + workOfScenario(1)
    ELSE (IF tests = 0 THEN 1 ELSE 0)
         + workOfSteps(stepIndex + 1)
         + (IF result.state = "pending" THEN 2 ELSE IF result.state = "none" THEN 0 ELSE 1)
         + 3 * Cardinality({r \in pendingReads : r.stage = "locate"})
         + 2 * Cardinality({r \in pendingReads : r.stage = "text"})
         + Cardinality({r \in pendingReads : r.stage = "value"})

\* every step of the program takes work away: no run goes on for ever
C1_WorkShrinks == workLeft' < workLeft /\ workLeft' >= 0

C1_TestWalksAllSteps ==
    /\ [](C1_InOrder /\ C1_SettlesLast /\ C1_CanGoOn)
    /\ [][C1_Waits /\ C1_WorkShrinks]_vars

\* a rejected first step, a second step called after it, and the run over
C1_Witness ==
    /\ settled
    /\ Len(steps) = 2
    /\ rejectedAt(0)
    /\ wasInvoked(1)

(***************************************************************************)
(* C2.  A step that throws adds the thrown value to `errors` and nothing   *)
(* to `failures`; a step whose handle rejects adds the rejection payload   *)
(* to `failures` and nothing to `errors`; a step that returns a plain      *)
(* value or a handle that resolves adds nothing to either list.            *)
(***************************************************************************)
\* what the steps called so far have thrown, in the order of the calls
RECURSIVE thrownBy(_)
thrownBy(j) ==
    IF j = 0 THEN <<>>
    ELSE IF throwsAt(invoked[j].step)
    THEN Append(thrownBy(j - 1), Message("thrown", invoked[j].src, <<>>, "", ""))
    ELSE thrownBy(j - 1)

\* what the handles of the steps before step i were rejected with, in step order
RECURSIVE rejectionsBefore(_)
rejectionsBefore(i) ==
    IF i <= 0 THEN <<>>
    ELSE IF rejectedAt(i - 1)
    THEN Append(rejectionsBefore(i - 1),
                (CHOOSE o \in outcomes : o.step = i - 1 /\ o.state = "rejected").reason)
    ELSE rejectionsBefore(i - 1)

C2_ErrorsAndFailures ==
    tests = 1 =>
        /\ failureReasons.errors = thrownBy(Len(invoked))
        /\ failureReasons.failures = rejectionsBefore(stepIndex)

\* a run over a step that threw, one whose handle was rejected and one whose
\* handle was resolved
C2_Witness ==
    /\ settled
    /\ \E i, j, k \in StepIndices : throwsAt(i) /\ rejectedAt(j) /\ resolvedAt(k)

(***************************************************************************)
(* C3.  As claimed: once test() has settled, the rejection of the handle   *)
(* of an action step is in the `errors` list of the report.                *)
(***************************************************************************)
\* step i is an action: a function that returns a handle which is rejected
actionRejectsAt(i) == stepAt(i).kind = "function" /\ stepAt(i).beh = "rejects"

rejectionOf(i) == Message("rejected", stepAt(i).src, <<>>, "", "")

C3_RejectionIsAnError ==
    settled =>
        \A i \in StepIndices :
            actionRejectsAt(i) =>
                \E j \in DOMAIN failureReasons.errors : failureReasons.errors[j] = rejectionOf(i)

(***************************************************************************)
(* C3, amended.  Once test() has settled, the rejection of the handle of   *)
(* an action step is in the `failures` list of the report, once, and not   *)
(* in its `errors` list.                                                   *)
(***************************************************************************)
C3_RejectionIsAFailure ==
    settled =>
        \A i \in StepIndices :
            actionRejectsAt(i) =>
                /\ Cardinality({ j \in DOMAIN report.failures :
                                     report.failures[j] = rejectionOf(i) }) = 1
                /\ entriesOf(report.errors, stepAt(i).src) = {}

\* a settled run with an action whose handle was rejected
C3_Witness ==
    /\ settled
    /\ \E i \in StepIndices : actionRejectsAt(i) /\ rejectedAt(i)

(***************************************************************************)
(* C4.  After the last step test() rejects its handle with the report      *)
(* {failures, errors} if and only if one of the two lists is not empty,    *)
(* and resolves it with no value otherwise: a feature fails exactly when   *)
(* some step threw or the handle of some step was rejected.                *)
(***************************************************************************)
C4_RejectsIffReasons ==
    settled =>
        /\ deferred = "rejected" <=>
               (failureReasons.failures # <<>> \/ failureReasons.errors # <<>>)
        /\ deferred = "rejected" <=>
               \E i \in StepIndices : (throwsAt(i) /\ wasInvoked(i)) \/ rejectedAt(i)
        /\ deferred = "rejected" => report = Value(failureReasons)
        /\ deferred = "resolved" => report = NoValue

\* a run rejected for an error alone
C4_Witness ==
    /\ deferred = "rejected"
    /\ failureReasons.failures = <<>>
    /\ failureReasons.errors # <<>>

(***************************************************************************)
(* C5.  When each of the N steps fails (throws, or returns a handle that   *)
(* is rejected), test() rejects with N entries in all, one per step, and   *)
(* in each list the entries are in the order of their steps.               *)
(***************************************************************************)
failingAt(i) == throwsAt(i) \/ rejectedAt(i)

C5_OneEntryPerFailingStep ==
    (settled /\ \A i \in StepIndices : failingAt(i)) =>
        /\ Len(steps) > 0 => deferred = "rejected"
        /\ Len(report.failures) + Len(report.errors) = Len(steps)
        /\ \A i \in StepIndices :
               Cardinality(entriesOf(report.failures, stepAt(i).src))
                   + Cardinality(entriesOf(report.errors, stepAt(i).src)) = 1
        /\ inStepOrder(report.failures)
        /\ inStepOrder(report.errors)

\* three failing steps, two of them in the same list
C5_Witness ==
    /\ settled
    /\ Len(steps) = 3
    /\ \A i \in StepIndices : failingAt(i)
    /\ Len(report.failures) >= 2

(***************************************************************************)
(* C6.  A Feature built from a scenario with no element has no step, and   *)
(* its test() resolves, calling nothing.                                   *)
(***************************************************************************)
C6_EmptyScenario ==
    scenario = <<>> =>
        /\ feature # "threw"
        /\ steps = <<>>
        /\ invoked = <<>>
        /\ issued = {}
        /\ tests = 1 => (deferred = "resolved" /\ report = NoValue)

C6_Witness ==
    /\ scenario = <<>>
    /\ feature = "constructed"
    /\ deferred = "resolved"

(***************************************************************************)
(* C7.  A state description with no key compiles to a thunk that resolves  *)
(* when it is called, asking the driver for nothing; the scenario [ {} ]   *)
(* passes.                                                                 *)
(***************************************************************************)
emptyAt(i) == stepAt(i).kind = "assertion" /\ stepAt(i).hooksVals = <<>>

C7_EmptyDescription ==
    /\ \A i \in StepIndices :
           emptyAt(i) =>
               /\ \A r \in issued : r.step # i
               /\ ~ rejectedAt(i)
               /\ wasInvoked(i) => resolvedAt(i)
    /\ scenario = <<Hash(<<>>)>> =>
           /\ feature # "threw"
           /\ deferred # "rejected"
           /\ (callbackReady \/ settled) => (issued = {} /\ failureReasons = NoReasons)

C7_Witness ==
    /\ scenario = <<Hash(<<>>)>>
    /\ Len(invoked) = 1
    /\ deferred = "resolved"

(***************************************************************************)
(* C8.  If a mapping of the scenario has a key whose widget name is not in *)
(* the registry, the construction of the Feature throws: no Feature is     *)
(* made, and no step of the scenario is ever called, the functions that    *)
(* come before the mapping included.                                       *)
(***************************************************************************)
\* a scenario element loadScenario takes for a state description
isMapping(e) == e.type = "object" /\ ~ (e.lengthDefined /\ e.length >= 0)

\* the widget name of a path is not a name of the registry
unknownWidget(path) == Len(path) = 0 \/ path[1] \notin widgets

hasUnknownWidget ==
    \E idx \in DOMAIN scenario :
        /\ isMapping(scenario[idx])
        /\ \E k \in DOMAIN scenario[idx].hooksVals :
               unknownWidget(scenario[idx].hooksVals[k].attribute)

C8_UnknownWidgetThrows ==
    hasUnknownWidget =>
        /\ feature \in {"none", "threw"}
        /\ steps = <<>>
        /\ tests = 0
        /\ deferred = "none"
        /\ invoked = <<>>
        /\ issued = {}

\* the constructor threw on a mapping that follows a function
C8_Witness ==
    /\ feature = "threw"
    /\ Len(scenario) >= 2
    /\ scenario[1].type = "function"
    /\ isMapping(scenario[2])
    /\ \E k \in DOMAIN scenario[2].hooksVals : unknownWidget(scenario[2].hooksVals[k].attribute)

(***************************************************************************)
(* C9.  The validation of a key at construction looks at the widget name   *)
(* alone: when every key names a widget of the registry (and the scenario  *)
(* does not start with arguments) the construction succeeds, whether the   *)
(* element exists or not; that is found out when the step is evaluated.    *)
(***************************************************************************)
\* the scenario starts with an array or a primitive, which has nothing to bind to
startsWithArguments == scenario # <<>> /\ scenario[1].type # "function" /\ ~ isMapping(scenario[1])

absentMessage(a) ==
    Message("absent", stepAt(a.step).src, stepAt(a.step).hooksVals[a.key].attribute,
            "", stepAt(a.step).hooksVals[a.key].expected)

absentAnswers == { a \in answers : a.verdict = "absent" }

C10_AbsentIsNamed ==
    settled =>
        \A a \in absentAnswers :
            /\ deferred = "rejected"
            /\ \E j \in DOMAIN report.failures :
                   /\ entriesOf(report.failures, stepAt(a.step).src) = {j}
                   /\ report.failures[j] = absentMessage(a)
            /\ entriesOf(report.errors, stepAt(a.step).src) = {}
            /\ Len(invoked) = Len(steps)

(***************************************************************************)
(* C10, amended.  When an attribute of an assertion step cannot be         *)
(* resolved on the page, the handle of the step is rejected once, test()   *)
(* rejects with exactly one entry of that step in `failures` and none in   *)
(* `errors`, and the remaining steps still run.  The entry is what the     *)
(* handle was rejected with: the message that names this attribute as      *)
(* absent if no other attribute of the description has failed its check    *)
(* before, the message of the check that failed first otherwise.           *)
(***************************************************************************)
\* the answers that reject the evaluator: all but a match
failedAnswers == { a \in answers : a.verdict # "match" }

rejectionsAt(i) == { o \in outcomes : o.step = i /\ o.state = "rejected" }

C10_AbsentIsOneFailure ==
    \A a \in absentAnswers :
        /\ Cardinality(rejectionsAt(a.step)) = 1
        /\ ~ resolvedAt(a.step)
        /\ (\A b \in failedAnswers : b.step = a.step => b = a)
               => rejectionsAt(a.step) = {Handle("rejected", a.step, absentMessage(a))}
        /\ \A o \in rejectionsAt(a.step) :
               /\ o.reason.kind \in {"absent", "mismatch", "noText", "noValue"}
               /\ \E b \in failedAnswers :
                      /\ b.step = a.step
                      /\ o.reason.attribute = stepAt(b.step).hooksVals[b.key].attribute
        /\ a.step < stepIndex =>
               /\ \E j \in DOMAIN failureReasons.failures :
                      /\ entriesOf(failureReasons.failures, stepAt(a.step).src) = {j}
                      /\ Handle("rejected", a.step, failureReasons.failures[j])
                             \in rejectionsAt(a.step)
               /\ entriesOf(failureReasons.errors, stepAt(a.step).src) = {}
        /\ settled =>
               /\ deferred = "rejected"
               /\ report = Value(failureReasons)
               /\ a.step < stepIndex
               /\ Len(invoked) = Len(steps)

\* a one-key description whose element is absent, reported as such, and a
\* later step that was called all the same
C10_Witness ==
    /\ settled
    /\ Len(steps) >= 2
    /\ \E a \in absentAnswers :
           /\ a.step = 0
           /\ Len(stepAt(0).hooksVals) = 1
           /\ report.failures # <<>>
           /\ report.failures[1] = absentMessage(a)
    /\ wasInvoked(1)

(***************************************************************************)
(* C11.  An array, or a primitive taken as a one-element array, that comes *)
(* right after a function adds no step: the step of the function is        *)
(* replaced by one that calls this function, once, with exactly the        *)
(* members of the array as arguments.  The number of steps is the number   *)
(* of functions plus the number of state descriptions of the scenario.     *)
(***************************************************************************)
\* a scenario element loadScenario binds to the step before it
isArguments(e) == e.type # "function" /\ ~ isMapping(e)

\* the parameters loadScenario hands to buildFunctionalPromise for element e
parametersOf(e) == IF e.type = "object" THEN e.members ELSE <<e.members[1]>>

\* scenario[idx] is a function with arguments right after it
boundAt(idx) ==
    /\ scenario[idx].type = "function"
    /\ idx < Len(scenario)
    /\ isArguments(scenario[idx + 1])

C11_ArgumentsBind ==
    feature = "constructed" =>
        /\ Len(steps) = Cardinality({ idx \in DOMAIN scenario : scenario[idx].type = "function" })
                          + Cardinality({ idx \in DOMAIN scenario : isMapping(scenario[idx]) })
        /\ \A idx \in DOMAIN scenario :
               boundAt(idx) =>
                   /\ Cardinality({ i \in StepIndices : stepAt(i).src = idx }) = 1
                   /\ \A i \in StepIndices :
                          stepAt(i).src = idx =>
                              /\ stepAt(i).kind = "function"
                              /\ stepAt(i).beh = scenario[idx].beh
                   /\ \A j \in DOMAIN invoked :
                          invoked[j].src = idx =>
                              invoked[j].args = parametersOf(scenario[idx + 1])
                   /\ Cardinality({ j \in DOMAIN invoked : invoked[j].src = idx }) <= 1
                   /\ settled => Cardinality({ j \in DOMAIN invoked : invoked[j].src = idx }) = 1
        /\ \A j \in DOMAIN invoked :
               (scenario[invoked[j].src].type = "function" /\ ~ boundAt(invoked[j].src))
                   => invoked[j].args = <<>>

\* [ lookup, ["Paris"], {..} ]: two steps, and lookup was called with "Paris"
C11_Witness ==
    /\ Len(scenario) = 3
    /\ scenario[1].type = "function"
    /\ scenario[2] = Arr(<<"Paris">>)
    /\ isMapping(scenario[3])
    /\ Len(steps) = 2
    /\ settled
    /\ invoked[1].args = <<"Paris">>

(***************************************************************************)
(* C12.  A scenario that starts with an array or with a primitive has      *)
(* nothing to bind it to: the construction of the Feature throws, no step  *)
(* list is made and nothing is called.                                     *)
(***************************************************************************)
C12_BareArgumentsThrow ==
    startsWithArguments =>
        /\ feature \in {"none", "threw"}
        /\ steps = <<>>
        /\ tests = 0
        /\ deferred = "none"
        /\ invoked = <<>>
        /\ issued = {}

\* the constructor threw on a leading primitive, the rest of the scenario being sound
C12_Witness ==
    /\ feature = "threw"
    /\ Len(scenario) >= 2
    /\ scenario[1] = Prim("London")
    /\ scenario[2].type = "function"
    /\ ~ hasUnknownWidget

(***************************************************************************)
(* C13.  As claimed: the handle of an assertion thunk is pending as long   *)
(* as one of the reads it asked for is outstanding, even if a check that   *)
(* has completed saw a mismatch.                                           *)
(***************************************************************************)
\* step i is the closure of a state description
assertionAt(i) == stepAt(i).kind = "assertion"

\* the reads of step i the driver has not answered yet
readsLeft(i) == { r \in pendingReads : r.step = i }

\* how the reads of step i have ended so far
answersAt(i) == { a \in answers : a.step = i }

C13_WaitsForAllChecks ==
    \A r \in pendingReads : ~ rejectedAt(r.step) /\ ~ resolvedAt(r.step)

(***************************************************************************)
(* C13, amended.  The handle of an assertion thunk over k attributes is    *)
(* not resolved until all k checks have reported a match, and it is        *)
(* pending as long as a read is outstanding and no check has failed; it is *)
(* rejected as soon as one check fails, other reads being outstanding or   *)
(* not.                                                                    *)
(***************************************************************************)
C13_ResolvesAfterAllChecks ==
    /\ \A i \in StepIndices :
           (assertionAt(i) /\ resolvedAt(i)) =>
               /\ readsLeft(i) = {}
               /\ \A k \in DOMAIN stepAt(i).hooksVals :
                      \E a \in answersAt(i) : a.key = k /\ a.verdict = "match"
    /\ \A r \in pendingReads :
           (\A b \in failedAnswers : b.step # r.step)
               => result = Handle("pending", r.step, NoMessage)
    /\ \A i \in StepIndices :
           assertionAt(i) => (rejectedAt(i) <=> \E b \in failedAnswers : b.step = i)

\* a handle rejected for a mismatch while another read is outstanding
C13_Witness ==
    \E r \in pendingReads :
        /\ rejectedAt(r.step)
        /\ \E a \in answersAt(r.step) : a.verdict = "mismatch"
        /\ \A a \in answersAt(r.step) : a.verdict = "mismatch"

(***************************************************************************)
(* C14.  As claimed: when several attributes of a state description        *)
(* mismatch, the one rejection names the first of them in the order of     *)
(* the keys, with its actual and its expected value, whatever the order    *)
(* in which the reads complete.                                            *)
(***************************************************************************)
mismatchesAt(i) == { a \in answersAt(i) : a.verdict = "mismatch" }

\* the message of compareTo for the key of answer a
mismatchMessage(a) ==
    Message("mismatch", stepAt(a.step).src, stepAt(a.step).hooksVals[a.key].attribute,
            a.actual, stepAt(a.step).hooksVals[a.key].expected)

C14_Observed ==
    \A a \in answers' \ answers :
        a.verdict = "mismatch" =>
            IF \E b \in failedAnswers : b.step = a.step
            THEN rejectionsAt(a.step)' = rejectionsAt(a.step)
            ELSE /\ rejectionsAt(a.step) = {}
                 /\ rejectionsAt(a.step)' = {Handle("rejected", a.step, mismatchMessage(a))}

allResolve(i) ==
    /\ wasInvoked(i)
    /\ \A r \in readsLeft(i) : r.stage # "locate"
    /\ \A a \in answersAt(i) : a.verdict \in {"match", "mismatch"}

\* what was read for every key of step i is what the key expects
equalAt(i) ==
    \A k \in DOMAIN stepAt(i).hooksVals :
        \E a \in answersAt(i) : a.key = k /\ a.actual = stepAt(i).hooksVals[k].expected

\* what was read for some key of step i is not what the key expects
differsAt(i) ==
    \E a \in answersAt(i) : a.actual # stepAt(i).hooksVals[a.key].expected

C15_SettlesAfterAllReads ==
    \A i \in StepIndices :
        (assertionAt(i) /\ allResolve(i)) =>
            /\ Cardinality({ o \in outcomes : o.step = i }) <= 1
            /\ (resolvedAt(i) \/ rejectedAt(i)) => readsLeft(i) = {}
            /\ readsLeft(i) = {} => (resolvedAt(i) <=> equalAt(i))
            /\ readsLeft(i) = {} => (rejectedAt(i) <=> differsAt(i))

(***************************************************************************)
(* C15, amended.  When every attribute of an assertion thunk resolves on   *)
(* the page, its handle settles once: it resolves if and only if what was  *)
(* read for every key equals what is expected, and then after all the      *)
(* reads have completed; it rejects if and only if one differs, as soon as *)
(* the first difference is read.                                           *)
(***************************************************************************)
C15_ResolvesIffAllEqual ==
    \A i \in StepIndices :
        (assertionAt(i) /\ allResolve(i)) =>
            /\ Cardinality({ o \in outcomes : o.step = i }) <= 1
            /\ resolvedAt(i) => readsLeft(i) = {}
            /\ resolvedAt(i) <=> equalAt(i)
            /\ rejectedAt(i) <=> differsAt(i)

\* a description of two keys, both read as expected, and its handle resolved
C15_Witness ==
    \E i \in StepIndices :
        /\ assertionAt(i)
        /\ Len(stepAt(i).hooksVals) = 2
        /\ allResolve(i)
        /\ equalAt(i)
        /\ resolvedAt(i)

exhausted == navigation = "succeeded" /\ finished # <<>>

C17_SuccessIsConjunction ==
    /\ [](failed <=> \E k \in DOMAIN results : results[k] = "rejected")
    /\ []((exhausted /\ Len(features) >= 1) =>
            /\ Len(results) = Len(features)
            /\ \A k \in DOMAIN results : results[k] = handleOf(features[k], Len(features[k].steps))
            /\ finished = << \A k \in DOMAIN results : results[k] = "resolved" >>
            /\ finished = << ~ \E k \in DOMAIN results : results[k] = "rejected" >>)
    /\ [][failed => failed']_vars

\* a run that failed for its first Feature, the later ones having passed
C17_Witness ==
    /\ exhausted
    /\ Len(results) = 3
    /\ results[1] = "rejected"
    /\ results[2] = "resolved"
    /\ results[3] = "resolved"
    /\ finished = <<FALSE>>

(***************************************************************************)
(* C18.  In a run whose navigation succeeded, every Feature of the list is *)
(* evaluated once, in the order of the list and one at a time: test() of   *)
(* the next Feature is called only when the handle of the one before has   *)
(* settled, and whether it was resolved or rejected the next one is        *)
(* evaluated.                                                              *)
(***************************************************************************)
\* the calls of test() made by this step come after the handle of the Feature
\* under evaluation has settled
C18_OneAtATime ==
    Len(evaluated') > Len(evaluated) =>
        /\ Len(evaluated') = Len(evaluated) + 1
        /\ evaluated # <<>> =>
               /\ evaluation.feature = evaluated[Len(evaluated)]
               /\ evaluation.state \in {"resolved", "rejected"}

C18_EveryFeatureInOrder ==
    /\ [](\A j \in DOMAIN evaluated : evaluated[j] = j - 1 /\ j <= Len(features))
    /\ [](navigation = "succeeded" =>
            Len(evaluated) = (IF Len(results) < Len(features) THEN Len(results) + 1
                              ELSE Len(features)))
    /\ []((exhausted /\ Len(features) >= 1) => Len(evaluated) = Len(features))
    /\ [][C18_OneAtATime]_vars

\* three Features evaluated, the first of them having been rejected
C18_Witness ==
    /\ exhausted
    /\ evaluated = <<0, 1, 2>>
    /\ results[1] = "rejected"

(***************************************************************************)
(* C19.  Every run() quits the driver session, once, on each way to its    *)
(* end (the navigation failed, the list of Features is exhausted, the      *)
(* start of a Feature threw), provided the navigation and the handle of    *)
(* every Feature settle; no step of a Feature is run after the quit.       *)
(***************************************************************************)
\* the handle of every Feature of the list settles
allSettle ==
    \A k \in DOMAIN features : \A s \in DOMAIN features[k].steps : features[k].steps[s] # "hangs"

\* after the quit no test() is called and no Feature goes on
C19_NothingAfterQuit ==
    quits >= 1 => (evaluated' = evaluated /\ evaluation' = evaluation /\ quits' = quits)

C19_AlwaysQuits ==
    /\ [](quits = Len(finished) /\ quits <= 1)
    /\ [](quits = 1 => evaluation = NoEvaluation)
    /\ [][C19_NothingAfterQuit]_vars
    /\ (navigation # "none" /\ allSettle) ~> (quits = 1)

\* a Runner with no Feature: evaluateFeature(undefined) threw, and the
\* session was quit
C19_Witness ==
    /\ features = <<>>
    /\ navigation = "succeeded"
    /\ finished = <<FALSE>>
    /\ quits = 1

(***************************************************************************)
(* C20.  Whatever the order of the listing, the SuiteLoader loads in three *)
(* phases: every data file is evaluated before any widget description,     *)
(* and every widget description is evaluated, and its Widget registered in *)
(* `__widgets__`, before any feature description: every Feature is made    *)
(* against a registry that holds all the widgets of the suite.             *)
(***************************************************************************)
\* the kinds of files of a suite, by the naming patterns
isDataFile(file) == contains(file, dataMarker)
isWidgetFile(file) == ~ isDataFile(file) /\ contains(file, widgetMarker)
isFeatureFile(file) ==
    ~ isDataFile(file) /\ ~ isWidgetFile(file) /\ contains(file, featureMarker)

\* the phase an evaluation belongs to
phaseOf(e) == CASE e.as = "data" -> 1 [] e.as = "widget" -> 2 [] e.as = "feature" -> 3

\* `file` was evaluated, without a throw, before the j-th evaluation
loadedBefore(file, j) ==
    \E k \in DOMAIN loaded : k < j /\ loaded[k].file = file /\ loaded[k].ok

C20_ThreePhases ==
    /\ \A j, k \in DOMAIN loaded : j < k => phaseOf(loaded[j]) <= phaseOf(loaded[k])
    /\ \A j \in DOMAIN loaded :
           /\ (loaded[j].as = "data") = isDataFile(loaded[j].file)
           /\ (loaded[j].as = "widget") = isWidgetFile(loaded[j].file)
           /\ (loaded[j].as = "feature") = isFeatureFile(loaded[j].file)
           /\ loaded[j].as \in {"widget", "feature"} =>
                  \A i \in DOMAIN files : isDataFile(files[i]) => loadedBefore(files[i], j)
           /\ loaded[j].as = "feature" =>
                  /\ \A i \in DOMAIN files :
                         isWidgetFile(files[i]) => loadedBefore(files[i], j)
                  /\ loaded[j].widgetsList =
                         { basename(files[i]) : i \in { n \in DOMAIN files : isWidgetFile(files[n]) } }
    /\ Len(features) = Cardinality({ j \in DOMAIN loaded : loaded[j].as = "feature" /\ loaded[j].ok })
    /\ listing = "loaded" =>
           \A i \in DOMAIN files :
               (isDataFile(files[i]) \/ isWidgetFile(files[i]) \/ isFeatureFile(files[i]))
                   => Cardinality({ j \in DOMAIN loaded : loaded[j].file = files[i] }) = 1

\* a folder listed as feature, widgets, data, and loaded as data, widgets,
\* feature: the Feature was made and given to the Runner
C20_Witness ==
    /\ listing = "loaded"
    /\ files = << <<"Form", "Feature.js">>, <<"Form", "Widget.js">>, <<"Clock", "Widget.js">>,
                  <<"city", "Data.js">> >>
    /\ Len(loaded) = 4
    /\ loaded[4].file = <<"Form", "Feature.js">>
    /\ Len(features) = 1

(***************************************************************************)
(* C21.  An evaluation error in a data, widget or feature file aborts the  *)
(* load: the error is thrown again out of loadAllFiles, the file that      *)
(* failed is the last one evaluated, and a feature file that failed gave   *)
(* no Feature to the Runner.                                               *)
(***************************************************************************)
\* the files of the listing that loadAllFiles evaluates
isSuiteFile(file) == isDataFile(file) \/ isWidgetFile(file) \/ isFeatureFile(file)

\* the evaluations of feature descriptions that did not throw, in load order
featureEntries == SelectSeq(loaded, LAMBDA e : e.as = "feature" /\ e.ok)

C21_ErrorAbortsLoad ==
    /\ \A j \in DOMAIN loaded :
           ~ loaded[j].ok => (j = Len(loaded) /\ listing = "threw")
    /\ listing = "loaded" =>
           \A i \in DOMAIN files : isSuiteFile(files[i]) => readFileSync(files[i]).sound
    /\ Len(features) = Len(featureEntries)
    /\ \A k \in DOMAIN features :
           \E j \in DOMAIN loaded :
               /\ loaded[j].ok
               /\ loaded[j].as = "feature"
               /\ features[k].description = readFileSync(loaded[j].file).description

\* the widget description of the form reads `city`, that no data file
\* defined: its evaluation threw and the two feature files were left alone
C21_Witness ==
    /\ listing = "threw"
    /\ files = << <<"Clock", "Feature.js">>, <<"Form", "Widget.js">>,
                  <<"Clock", "Widget.js">>, <<"Form", "Feature.js">> >>
    /\ Len(loaded) = 1
    /\ loaded[1].file = <<"Form", "Widget.js">>
    /\ ~ loaded[1].ok
    /\ features = <<>>

(***************************************************************************)
(* C23.  When the configuration file cannot be required, the construction  *)
(* of the SuiteLoader throws before the Runner is made, before the context *)
(* is built and before the folder is listed: no file is ever evaluated.    *)
(***************************************************************************)
C23_MissingConfigThrowsFirst ==
    /\ config = "missing" =>
           /\ loader \in {"none", "threw"}
           /\ runner = "none"
           /\ context = NoContext
           /\ listing = "none"
           /\ loaded = <<>>
           /\ features = <<>>
           /\ bridge = <<>>
    /\ loader = "threw" => config = "missing"

\* a folder of three files without a configuration: the construction threw
C23_Witness ==
    /\ config = "missing"
    /\ loader = "threw"
    /\ Len(files) = 3
    /\ \E i \in DOMAIN files : isFeatureFile(files[i])

(***************************************************************************)
(* C24.  The shared list of Features is a bridge used once per feature     *)
(* file: after each loadFeature that did not throw it is empty again and   *)
(* the Runner has one more Feature, so that after the load the Features of *)
(* the Runner are those of the feature files, one per file, in load order. *)
(***************************************************************************)
\* the Feature a feature description file makes
FeatureOf(file) == Evaluable(readFileSync(file).description, readFileSync(file).steps)

C22_LoadErrorsReachCaller ==
    /\ (\E j \in DOMAIN loaded : ~ loaded[j].ok) => loader = "threw"
    /\ listing = "threw" => navigation = "none"

(***************************************************************************)
(* C28.  Loading completes before execution starts: the callback of the    *)
(* directory listing has run before the Runner evaluates its first Feature *)
(* or finishes, so that a Runner that has finished went through every      *)
(* Feature of its list, and none was added after it finished.              *)
(***************************************************************************)
C28_LoadedBeforeExecution ==
    /\ (evaluated # <<>> \/ finished # <<>>) => listing \in {"loaded", "threw"}
    /\ (finished # <<>> /\ navigation = "succeeded") => Len(evaluated) = Len(features)

(***************************************************************************)
(* C25.  A Runner without Features whose navigation succeeds finishes at   *)
(* once with success, the conjunction over no Feature, and quits the       *)
(* session.                                                                *)
(***************************************************************************)
C25_EmptyRunnerSucceeds ==
    (features = <<>> /\ navigation = "succeeded") =>
        (finished = <<TRUE>> /\ quits = 1)

(***************************************************************************)
(* C26.  When two argument sequences follow the same function, as in       *)
(* [f, A, B], the scenario still makes one step for f, and this step calls *)
(* f with the members of A, the first sequence: the bind made for B wraps  *)
(* the bind made for A, whose arguments come first.                        *)
(***************************************************************************)
\* scenario[idx] is a function with two argument sequences right after it
boundTwiceAt(idx) ==
    /\ boundAt(idx)
    /\ idx + 1 < Len(scenario)
    /\ isArguments(scenario[idx + 2])

C26_FirstSequenceWins ==
    feature = "constructed" =>
        \A idx \in DOMAIN scenario :
            boundTwiceAt(idx) =>
                /\ Cardinality({ i \in StepIndices : stepAt(i).src = idx }) = 1
                /\ \A i \in StepIndices : stepAt(i).src \notin {idx + 1, idx + 2}
                /\ \A j \in DOMAIN invoked :
                       invoked[j].src = idx =>
                           invoked[j].args = parametersOf(scenario[idx + 1])
                /\ settled => Cardinality({ j \in DOMAIN invoked : invoked[j].src = idx }) = 1

\* the claim as the specification words it: f is called with the members of
\* B, the latest sequence
C26_LatestSequenceWins ==
    feature = "constructed" =>
        \A idx \in DOMAIN scenario :
            boundTwiceAt(idx) =>
                \A j \in DOMAIN invoked :
                    invoked[j].src = idx =>
                        invoked[j].args = parametersOf(scenario[idx + 2])

\* [ lookup, ["Paris"], "London" ]: one step, and lookup was called with "Paris"
C26_Witness ==
    /\ Len(scenario) = 3
    /\ scenario[1].type = "function"
    /\ scenario[2] = Arr(<<"Paris">>)
    /\ scenario[3] = Prim("London")
    /\ Len(steps) = 1
    /\ settled
    /\ Len(invoked) = 1
    /\ invoked[1].args = <<"Paris">>

(***************************************************************************)
(* C27.  What an assertion thunk answers depends on the page at the time   *)
(* it is called, not on its earlier calls: each time it is called, its     *)
(* count of matches left starts at the number of keys, and when the driver *)
(* has answered the expected value for every key of this call, its handle  *)
(* is resolved.                                                            *)
(***************************************************************************)
\* the reads the call of step i in the current test() asked for
readsOf(i) == { r \in issued : r.test = tests /\ r.step = i }

\* step i, a state description with keys, is the step the current test()
\* waits for
assertingAt(i) ==
    /\ stepAt(i).kind = "assertion"
    /\ Len(stepAt(i).hooksVals) > 0
    /\ result.state # "none"
    /\ result.step = i

C27_EachCallStartsAfresh ==
    \A i \in StepIndices :
        assertingAt(i) =>
            /\ (\A r \in readsOf(i) :
                    [test |-> r.test, step |-> r.step, key |-> r.key, stage |-> "locate"]
                        \in pendingReads)
                   => matchesLeft[i + 1] = Len(stepAt(i).hooksVals)
            /\ (\A r \in readsOf(i) :
                    \E a \in answers :
                        /\ a.test = r.test
                        /\ a.step = r.step
                        /\ a.key = r.key
                        /\ a.verdict = "match")
                   => result.state = "resolved"

====
